---- MODULE Spec2Model ----
(***************************************************************************)
(* A log-structured key-value store: an append-only record log, an         *)
(* in-memory hash index from key to byte offset, and a JSON snapshot of    *)
(* the index that is rewritten on every Set and read once at startup.      *)
(*                                                                         *)
(* Files are sequences of bytes (numbers 0..255).  The log handle is       *)
(* opened O_RDWR|O_CREATE|O_APPEND, so every write lands at the end of     *)
(* the file and leaves the handle's offset there, while reads start at     *)
(* the handle's current offset.                                            *)
(***************************************************************************)
EXTENDS Integers, Sequences, FiniteSets, TLC

(***************************************************************************)
(* Bytes that have a meaning to the code.                                  *)
(***************************************************************************)
NL == 10
Comma == 44
Quote == 34
Colon == 58
Backslash == 92
LBrace == 123
RBrace == 125

(***************************************************************************)
(* Bounds of the model.                                                    *)
(*   MaxRecords   the number of Set calls: the records in the log, and the *)
(*                calls that met a failing file operation                  *)
(*   ScanBufSize  the first buffer of a bufio.Scanner (4096 in Go's bufio),*)
(*                scaled down so that one read can stop inside the log     *)
(*   MaxCalls     the number of Set calls the concurrent clients issue     *)
(*   MaxReads     the number of Get calls the concurrent clients issue     *)
(*   MaxFaults    the number of Set calls in which the rewrite of the      *)
(*                snapshot fails                                           *)
(***************************************************************************)
MaxRecords == 3
ScanBufSize == 4
MaxCalls == 2
MaxReads == 2
MaxFaults == 1

(***************************************************************************)
(* The entries handed to Set: "a,x", "a,y", "c" (no separator) and         *)
(* "\xff,x" (a key that is not valid UTF-8).  The ids handed to Get: "a",  *)
(* "b" (never written) and "\xef\xbf\xbd" (U+FFFD).                        *)
(***************************************************************************)
Entries == { <<97, 44, 120>>, <<97, 44, 121>>, <<99>>, <<255, 44, 120>> }

Ids == { <<97>>, <<98>>, <<239, 191, 189>> }

Min(a, b) == IF a < b THEN a ELSE b

(***************************************************************************)
(* Byte-string helpers.                                                    *)
(***************************************************************************)
\* The suffix of s that starts after its first n bytes.
Drop(s, n) == SubSeq(s, n + 1, Len(s))

\* The first n bytes of s.
Take(s, n) == SubSeq(s, 1, n)

\* The position of the first byte b in s, or 0.
IndexByte(s, b) ==
  IF \E i \in 1..Len(s) : s[i] = b
  THEN CHOOSE i \in 1..Len(s) : s[i] = b /\ \A j \in 1..(i - 1) : s[j] # b
  ELSE 0

\* strings.Contains(entry, ",")
Contains(s, b) == IndexByte(s, b) # 0

\* strings.Split(s, ",")[0]: the text before the first separator, or all of s.
SplitFirst(s) ==
  IF Contains(s, Comma) THEN Take(s, IndexByte(s, Comma) - 1) ELSE s

(***************************************************************************)
(* bufio.Scanner with the default split function ScanLines, reading a     *)
(* file from a given offset.                                               *)
(***************************************************************************)
\* bufio.ScanLines drops one trailing carriage return of a line.
DropCR(line) ==
  IF Len(line) > 0 /\ line[Len(line)] = 13 THEN Take(line, Len(line) - 1) ELSE line

\* The tokens ScanLines yields over data until Scan returns false: the lines
\* that end in a newline, then a last unterminated line if it is not empty.
RECURSIVE ScanAll(_)
ScanAll(data) ==
  IF Len(data) = 0 THEN <<>>
  ELSE IF Contains(data, NL)
       THEN <<DropCR(Take(data, IndexByte(data, NL) - 1))>>
            \o ScanAll(Drop(data, IndexByte(data, NL)))
       ELSE <<DropCR(data)>>

\* The bytes the scanner has read from the file when its first Scan returns:
\* it fills a buffer of ScanBufSize bytes, and doubles the buffer and reads
\* on while the buffer is full and holds no newline.
RECURSIVE ScanFirstRead(_, _)
ScanFirstRead(data, cap) ==
  IF Len(data) <= cap \/ Contains(Take(data, cap), NL)
  THEN Min(Len(data), cap)
  ELSE ScanFirstRead(data, 2 * cap)

\* Scan() once, then Text(): the first token, or "" when Scan returns false.
ScanFirstText(data) ==
  IF Len(data) = 0 THEN <<>> ELSE Head(ScanAll(data))

(***************************************************************************)
(* scanFullDB: the last line, among those the scanner yields, whose id     *)
(* (the text before the first separator) is id; "" when there is none.     *)
(***************************************************************************)
RECURSIVE LastMatch(_, _, _)
LastMatch(lines, id, entry) ==
  IF Len(lines) = 0 THEN entry
  ELSE LastMatch(Tail(lines), id,
                 IF SplitFirst(Head(lines)) = id THEN Head(lines) ELSE entry)

scanFullDB(data, id) == LastMatch(ScanAll(data), id, <<>>)

(***************************************************************************)
(* The hash index: a map from key to offset.                               *)
(***************************************************************************)
EmptyIndex == [k \in {} |-> 0]

Put(hash, id, offset) ==
  [k \in (DOMAIN hash) \cup {id} |-> IF k = id THEN offset ELSE hash[k]]

(***************************************************************************)
(* Get, as a function of the store: the entry it returns and the offset    *)
(* at which it leaves the log handle.  The scanner reads from the          *)
(* handle's offset; only the indexed path seeks first.                     *)
(***************************************************************************)
\* (as GetEntry, with the key of the line found compared to id, and the full
\* scan as the fallback when they differ)
GetEntryVerified(hash, disabled, file, pos, id) ==
  IF ~disabled /\ id \in DOMAIN hash
     /\ SplitFirst(ScanFirstText(Drop(file, hash[id]))) = id
  THEN ScanFirstText(Drop(file, hash[id]))
  ELSE scanFullDB(Drop(file, pos), id)

GetEntry(hash, disabled, file, pos, id) ==
  IF disabled THEN scanFullDB(Drop(file, pos), id)
  ELSE IF id \in DOMAIN hash
       THEN ScanFirstText(Drop(file, hash[id]))
       ELSE scanFullDB(Drop(file, pos), id)

GetPos(hash, disabled, file, pos, id) ==
  IF ~disabled /\ id \in DOMAIN hash
  THEN hash[id] + ScanFirstRead(Drop(file, hash[id]), ScanBufSize)
  ELSE Len(file)

(***************************************************************************)
(* encoding/json, as far as a map[string]int64 uses it.                    *)
(***************************************************************************)
\* The length of the UTF-8 sequence at the head of s (s[1] >= 128), or 0 when
\* the bytes there are no valid encoding (utf8.DecodeRune gives RuneError, 1).
Cont(b) == b \in 128..191

RuneLen(s) ==
  LET b0 == s[1] IN
  IF b0 \in 194..223
  THEN IF Len(s) >= 2 /\ Cont(s[2]) THEN 2 ELSE 0
  ELSE IF b0 \in 224..239
  THEN IF /\ Len(s) >= 3
          /\ s[2] \in (IF b0 = 224 THEN 160..191
                       ELSE IF b0 = 237 THEN 128..159 ELSE 128..191)
          /\ Cont(s[3])
       THEN 3 ELSE 0
  ELSE IF b0 \in 240..244
  THEN IF /\ Len(s) >= 4
          /\ s[2] \in (IF b0 = 240 THEN 144..191
                       ELSE IF b0 = 244 THEN 128..143 ELSE 128..191)
          /\ Cont(s[3])
          /\ Cont(s[4])
       THEN 4 ELSE 0
  ELSE 0

\* utf8.AppendRune
RuneBytes(r) ==
  IF r < 128 THEN <<r>>
  ELSE IF r < 2048 THEN <<192 + (r \div 64), 128 + (r % 64)>>
  ELSE IF r < 65536
  THEN <<224 + (r \div 4096), 128 + ((r \div 64) % 64), 128 + (r % 64)>>
  ELSE <<240 + (r \div 262144), 128 + ((r \div 4096) % 64),
         128 + ((r \div 64) % 64), 128 + (r % 64)>>

HexDigit(n) == IF n < 10 THEN 48 + n ELSE 87 + n

HexVal(b) ==
  IF b \in 48..57 THEN b - 48
  ELSE IF b \in 97..102 THEN b - 87
  ELSE IF b \in 65..70 THEN b - 55
  ELSE -1

\* The escape for U+FFFD, which stands for a byte that is not valid UTF-8.
EscFFFD == <<Backslash, 117, 102, 102, 102, 100>>

\* The body of a JSON string for s (the encoder's appendString, with HTML
\* escaping on as json.NewEncoder leaves it).
RECURSIVE EncodeBody(_)
EncodeBody(s) ==
  IF Len(s) = 0 THEN <<>>
  ELSE LET c == s[1] IN
    IF c < 128
    THEN (IF c = Quote \/ c = Backslash THEN <<Backslash, c>>
          ELSE IF c = 8 THEN <<Backslash, 98>>
          ELSE IF c = 12 THEN <<Backslash, 102>>
          ELSE IF c = 10 THEN <<Backslash, 110>>
          ELSE IF c = 13 THEN <<Backslash, 114>>
          ELSE IF c = 9 THEN <<Backslash, 116>>
          ELSE IF c < 32 \/ c \in {60, 62, 38}
          THEN <<Backslash, 117, 48, 48, HexDigit(c \div 16), HexDigit(c % 16)>>
          ELSE <<c>>)
         \o EncodeBody(Tail(s))
    ELSE LET n == RuneLen(s) IN
      IF n = 0 THEN EscFFFD \o EncodeBody(Tail(s))
      ELSE IF Take(s, n) = <<226, 128, 168>>
      THEN <<Backslash, 117, 50, 48, 50, 56>> \o EncodeBody(Drop(s, n))
      ELSE IF Take(s, n) = <<226, 128, 169>>
      THEN <<Backslash, 117, 50, 48, 50, 57>> \o EncodeBody(Drop(s, n))
      ELSE Take(s, n) \o EncodeBody(Drop(s, n))

\* strconv.AppendInt(n, 10) for n >= 0.
RECURSIVE Decimal(_)
Decimal(n) ==
  IF n < 10 THEN <<48 + n>> ELSE Decimal(n \div 10) \o <<48 + (n % 10)>>

\* strings.Compare(a, b) < 0: byte by byte, a proper prefix first.
RECURSIVE BytesLess(_, _)
BytesLess(a, b) ==
  IF Len(b) = 0 THEN FALSE
  ELSE IF Len(a) = 0 THEN TRUE
  ELSE IF a[1] # b[1] THEN a[1] < b[1]
  ELSE BytesLess(Tail(a), Tail(b))

\* The members of the object, keys in sorted order.
RECURSIVE EncodeMembers(_, _)
EncodeMembers(hash, keys) ==
  IF keys = {} THEN <<>>
  ELSE LET k == CHOOSE x \in keys : \A y \in keys \ {x} : BytesLess(x, y)
       IN  <<Quote>> \o EncodeBody(k) \o <<Quote, Colon>> \o Decimal(hash[k])
           \o (IF keys = {k} THEN <<>> ELSE <<Comma>>)
           \o EncodeMembers(hash, keys \ {k})

\* json.NewEncoder(w).Encode(hash): the object and a newline.
Encode(hash) ==
  <<LBrace>> \o EncodeMembers(hash, DOMAIN hash) \o <<RBrace, NL>>

(***************************************************************************)
(* json.NewDecoder(r).Decode(&hashIndex): the decoder reads ONE value from *)
(* the start of the stream and stops at the brace that closes it; what     *)
(* follows in the stream is not looked at.  Each operator returns          *)
(* [ok, val, next]: whether it succeeded, what it read, and the position   *)
(* of the first byte after it.  A syntax error and a value of the wrong    *)
(* type both make Decode return an error.                                  *)
(***************************************************************************)
Fail == [ok |-> FALSE, val |-> <<>>, next |-> 0]

IsSpace(b) == b \in {32, 9, 13, 10}

RECURSIVE SkipSpace(_, _)
SkipSpace(s, i) ==
  IF i <= Len(s) /\ IsSpace(s[i]) THEN SkipSpace(s, i + 1) ELSE i

\* The four hex digits at s[i..i+3] as a number, or -1.
U4(s, i) ==
  IF i + 3 <= Len(s) /\ \A j \in i..(i + 3) : HexVal(s[j]) >= 0
  THEN 4096 * HexVal(s[i]) + 256 * HexVal(s[i + 1])
       + 16 * HexVal(s[i + 2]) + HexVal(s[i + 3])
  ELSE -1

\* The escape backslash-u at s[i], as a number, or -1.
EscU4(s, i) ==
  IF i + 1 <= Len(s) /\ s[i] = Backslash /\ s[i + 1] = 117
  THEN U4(s, i + 2) ELSE -1

\* The rest of a string literal from s[i] on, acc being what was read so far.
RECURSIVE StringBody(_, _, _)
StringBody(s, i, acc) ==
  IF i > Len(s) THEN Fail
  ELSE LET c == s[i] IN
    IF c = Quote THEN [ok |-> TRUE, val |-> acc, next |-> i + 1]
    ELSE IF c = Backslash
    THEN IF i + 1 > Len(s) THEN Fail
         ELSE LET e == s[i + 1] IN
           IF e \in {Quote, Backslash, 47} THEN StringBody(s, i + 2, acc \o <<e>>)
           ELSE IF e = 98 THEN StringBody(s, i + 2, acc \o <<8>>)
           ELSE IF e = 102 THEN StringBody(s, i + 2, acc \o <<12>>)
           ELSE IF e = 110 THEN StringBody(s, i + 2, acc \o <<10>>)
           ELSE IF e = 114 THEN StringBody(s, i + 2, acc \o <<13>>)
           ELSE IF e = 116 THEN StringBody(s, i + 2, acc \o <<9>>)
           ELSE IF e = 117
           THEN LET r  == U4(s, i + 2)
                    r1 == EscU4(s, i + 6)
                IN  IF r < 0 THEN Fail
                    ELSE IF r \in 55296..57343
                    THEN IF r < 56320 /\ r1 \in 56320..57343
                         THEN StringBody(s, i + 12, acc \o
                                RuneBytes(65536 + (r - 55296) * 1024 + (r1 - 56320)))
                         ELSE StringBody(s, i + 6, acc \o <<239, 191, 189>>)
                    ELSE StringBody(s, i + 6, acc \o RuneBytes(r))
           ELSE Fail
    ELSE IF c < 32 THEN Fail
    ELSE IF c < 128 THEN StringBody(s, i + 1, acc \o <<c>>)
    ELSE LET n == RuneLen(Drop(s, i - 1)) IN
      IF n = 0 THEN StringBody(s, i + 1, acc \o <<239, 191, 189>>)
      ELSE StringBody(s, i + n, acc \o SubSeq(s, i, i + n - 1))

\* A string literal at s[i].
ParseString(s, i) ==
  IF i <= Len(s) /\ s[i] = Quote THEN StringBody(s, i + 1, <<>>) ELSE Fail

\* The digits from s[i] on, acc being the number read so far.
RECURSIVE Digits(_, _, _)
Digits(s, i, acc) ==
  IF i <= Len(s) /\ s[i] \in 48..57
  THEN Digits(s, i + 1, 10 * acc + (s[i] - 48))
  ELSE [ok |-> TRUE, val |-> acc, next |-> i]

\* A number at s[i] that an int64 takes: an optional minus, then 0 or a digit
\* 1-9 and more digits; a fraction or an exponent is refused by the int64.
ParseInt(s, i) ==
  LET neg == i <= Len(s) /\ s[i] = 45
      j   == IF neg THEN i + 1 ELSE i
      d   == IF j <= Len(s) /\ s[j] = 48
             THEN [ok |-> TRUE, val |-> 0, next |-> j + 1]
             ELSE IF j <= Len(s) /\ s[j] \in 49..57
             THEN Digits(s, j, 0)
             ELSE Fail
  IN  IF ~d.ok THEN Fail
      ELSE IF d.next <= Len(s) /\ s[d.next] \in {46, 101, 69} THEN Fail
      ELSE [ok |-> TRUE, val |-> IF neg THEN 0 - d.val ELSE d.val, next |-> d.next]

\* The members of an object from the key at s[i] on; a later member with a
\* key already read replaces the earlier one.
RECURSIVE Members(_, _, _)
Members(s, i, acc) ==
  LET k  == ParseString(s, i)
      c  == IF k.ok THEN SkipSpace(s, k.next) ELSE 0
      v  == IF k.ok /\ c <= Len(s) /\ s[c] = Colon
            THEN ParseInt(s, SkipSpace(s, c + 1)) ELSE Fail
      e  == IF v.ok THEN SkipSpace(s, v.next) ELSE 0
  IN  IF ~v.ok \/ e > Len(s) THEN Fail
      ELSE IF s[e] = RBrace
      THEN [ok |-> TRUE, val |-> Put(acc, k.val, v.val), next |-> e + 1]
      ELSE IF s[e] = Comma
      THEN Members(s, SkipSpace(s, e + 1), Put(acc, k.val, v.val))
      ELSE Fail

\* Decode into a map[string]int64 that holds hash already.
Decode(s, hash) ==
  LET i == SkipSpace(s, 1) IN
  IF i > Len(s) \/ s[i] # LBrace THEN Fail
  ELSE LET j == SkipSpace(s, i + 1) IN
    IF j <= Len(s) /\ s[j] = RBrace
    THEN [ok |-> TRUE, val |-> hash, next |-> j + 1]
    ELSE Members(s, j, hash)

(***************************************************************************)
(* The steps of Set, as functions of the store.                            *)
(***************************************************************************)
\* info.Size() of db.Stat(): the length of the log.
StatSize(file) == Len(file)

\* (as WriteString, on a handle opened without O_APPEND: the bytes go to the
\* handle's offset)
WriteStringAtOffset(file, pos, entry) ==
  Take(file, pos) \o entry \o <<NL>> \o Drop(file, pos + Len(entry) + 1)

\* db.WriteString(entry + "\n") on the handle at offset pos: the handle was
\* opened with O_APPEND, so the bytes go to the end of the file wherever the
\* handle is.
WriteString(file, pos, entry) == file \o entry \o <<NL>>

\* (as SetIndex, with the size taken after the append)
SetIndexAfterAppend(hash, file, entry) ==
  Put(hash, SplitFirst(entry), Len(file) + Len(entry) + 1)

\* id := strings.Split(entry, ",")[0]; hashIndex[id] = info.Size(), with
\* info taken from Stat before the append.
SetIndex(hash, file, entry) == Put(hash, SplitFirst(entry), StatSize(file))

\* (as AbortedIndex, with the index updated although Set returns the error)
AbortedIndexUpdated(hash, file, entry) ==
  Put(hash, SplitFirst(entry), Len(file))

\* if err != nil { return err } after Stat and after WriteString: Set returns
\* before it reaches db.Hash[id] = info.Size(), the index stays as it is.
AbortedIndex(hash, file, entry) == hash

\* A write of bytes at offset pos of a file that is not truncated: the bytes
\* replace what was there, and what lies behind them stays.
WriteAt(file, pos, bytes) ==
  Take(file, pos) \o bytes \o Drop(file, pos + Len(bytes))

\* hash.Seek(0, io.SeekStart), then Encode(hashIndex) writes to the handle.
Persist(file, hash) == WriteAt(file, 0, Encode(hash))

\* (as Refused, with the check left out)
RefusedNever(entry) == FALSE

\* !strings.Contains(*entry, ","): main refuses the entry.
Refused(entry) == ~Contains(entry, Comma)

\* Startup: the index main holds after reading the snapshot, and whether
\* reading it failed (log.Fatal).  An empty file is not read.
LoadFails(file) == Len(file) > 0 /\ ~Decode(file, EmptyIndex).ok

LoadIndex(file) ==
  IF Len(file) > 0 THEN Decode(file, EmptyIndex).val ELSE EmptyIndex

(***************************************************************************)
(* State.                                                                  *)
(*   dbFile, hashFile   the bytes of the log and of the snapshot file      *)
(*   phase              "down": no process holds the files; "up": a        *)
(*                      process has opened them and loaded the index       *)
(*   hashIndex          the in-memory index                                *)
(*   fPos, hashPos      the offsets of the two file handles                *)
(*   boot               how the last startup ended                         *)
(*   last               the last request: its operation, argument, mode,   *)
(*                      returned entry and error                           *)
(*   written            history: the entries appended to the log, in order *)
(*   snaps              history: the indexes that the complete snapshots   *)
(*                      hold: the one of the last completed persist, and   *)
(*                      the ones of persists that a crash cut short since  *)
(*   setPos             history: the offset of the log handle when the     *)
(*                      last Set began                                     *)
(*   faults             the number of Set calls that met a failing file    *)
(*                      operation                                          *)
(*   pc, ent, sz, buf   per client of the concurrent store: its place in   *)
(*                      Set, its entry, info.Size(), the marshalled index  *)
(*   calls              the number of Set calls the clients have begun     *)
(*   rid, roff, rres    per client of the concurrent store, for its Get:   *)
(*                      the id, the offset the index gave (-1: none), and  *)
(*                      the entry returned                                 *)
(*   reads              the number of Get calls the clients have begun     *)
(***************************************************************************)
VARIABLES dbFile, hashFile, phase, hashIndex, fPos, hashPos, boot, last,
          written, snaps, setPos, faults, pc, ent, sz, buf, calls, rid, roff,
          rres, reads

vars == <<dbFile, hashFile, phase, hashIndex, fPos, hashPos, boot, last,
          written, snaps, setPos, faults, pc, ent, sz, buf, calls, rid, roff,
          rres, reads>>

hist == <<snaps, setPos, faults>>

readVars == <<rid, roff, rres, reads>>

clientVars == <<pc, ent, sz, buf, calls, readVars>>

Clients == {1, 2}

Request(op, arg, disabled, res, err) ==
  [op |-> op, arg |-> arg, disabled |-> disabled, res |-> res, err |-> err]

Init ==
  /\ dbFile = <<>>
  /\ hashFile = <<>>
  /\ phase = "down"
  /\ hashIndex = EmptyIndex
  /\ fPos = 0
  /\ hashPos = 0
  /\ boot = "none"
  /\ last = Request("none", <<>>, FALSE, <<>>, "")
  /\ written = <<>>
  /\ snaps = {EmptyIndex}
  /\ setPos = 0
  /\ faults = 0
  /\ pc = [c \in Clients |-> "idle"]
  /\ ent = [c \in Clients |-> <<>>]
  /\ sz = [c \in Clients |-> 0]
  /\ buf = [c \in Clients |-> <<>>]
  /\ calls = 0
  /\ rid = [c \in Clients |-> <<>>]
  /\ roff = [c \in Clients |-> -1]
  /\ rres = [c \in Clients |-> <<>>]
  /\ reads = 0

\* The process is gone: its memory and its handles with it.
Down ==
  /\ phase' = "down"
  /\ hashIndex' = EmptyIndex
  /\ fPos' = 0
  /\ hashPos' = 0

(***************************************************************************)
(* main, up to the request: open both files, read the snapshot if the file *)
(* is not empty, and stop with log.Fatal if it cannot be decoded.          *)
(***************************************************************************)
Startup ==
  /\ phase = "down"
  /\ IF LoadFails(hashFile)
     THEN /\ boot' = "CorruptSnapshot"
          /\ Down
     ELSE /\ boot' = "ok"
          /\ phase' = "up"
          /\ hashIndex' = LoadIndex(hashFile)
          /\ fPos' = 0
          /\ hashPos' = Len(hashFile)
  /\ UNCHANGED <<dbFile, hashFile, last, written, hist, clientVars>>

\* The process ends: main returns, and the deferred Close calls run.
Exit ==
  /\ phase = "up"
  /\ Down
  /\ UNCHANGED <<dbFile, hashFile, boot, last, written, hist, clientVars>>

(***************************************************************************)
(* Set(entry) and Get(id) on the open store.                               *)
(***************************************************************************)
SetBody(hash, entry) ==
  /\ Len(written) + faults < MaxRecords
  /\ dbFile' = WriteString(dbFile, fPos, entry)
  /\ hashFile' = Persist(hashFile, SetIndex(hash, dbFile, entry))
  /\ written' = Append(written, entry)
  /\ snaps' = {LoadIndex(hashFile')}
  /\ setPos' = fPos
  /\ faults' = faults
  /\ last' = Request("Set", entry, FALSE, <<>>, "")

Set(entry) ==
  /\ phase = "up"
  /\ SetBody(hashIndex, entry)
  /\ hashIndex' = SetIndex(hashIndex, dbFile, entry)
  /\ fPos' = Len(dbFile')
  /\ hashPos' = Len(Encode(hashIndex'))
  /\ UNCHANGED <<phase, boot, clientVars>>

Get(id, disabled) ==
  /\ phase = "up"
  /\ fPos' = GetPos(hashIndex, disabled, dbFile, fPos, id)
  /\ last' = Request("Get", id, disabled,
                     GetEntry(hashIndex, disabled, dbFile, fPos, id), "")
  /\ UNCHANGED <<dbFile, hashFile, phase, hashIndex, hashPos, boot, written,
                 hist, clientVars>>

(***************************************************************************)
(* main with --entry, a whole process: startup, then the entry is refused  *)
(* when it holds no separator (log.Fatal) and handed to Set otherwise, and *)
(* the process ends.  (main with --get is Startup, Get, Exit.)             *)
(***************************************************************************)
WriteRequest(entry) ==
  /\ phase = "down"
  /\ IF LoadFails(hashFile)
     THEN /\ boot' = "CorruptSnapshot"
          /\ UNCHANGED <<dbFile, hashFile, last, written, hist>>
     ELSE /\ boot' = "ok"
          /\ IF Refused(entry)
             THEN /\ last' = Request("Set", entry, FALSE, <<>>,
                                     "InvalidEntryFormat")
                  /\ UNCHANGED <<dbFile, hashFile, written, hist>>
             ELSE SetBody(LoadIndex(hashFile), entry)
  /\ Down
  /\ UNCHANGED clientVars

(***************************************************************************)
(* The process dies inside Set's rewrite of the snapshot: the record is    *)
(* in the log, and the first n bytes of the new snapshot have reached the  *)
(* file (n = 0: none of it has).                                           *)
(***************************************************************************)
CrashInPersist(entry) ==
  LET enc == Encode(SetIndex(hashIndex, dbFile, entry))
  IN  /\ phase = "up"
      /\ Len(written) + faults < MaxRecords
      /\ \E n \in 0..(Len(enc) - 1) :
            hashFile' = WriteAt(hashFile, 0, Take(enc, n))
      /\ dbFile' = WriteString(dbFile, fPos, entry)
      /\ written' = Append(written, entry)
      /\ snaps' = snaps \cup {LoadIndex(WriteAt(hashFile, 0, enc))}
      /\ setPos' = fPos
      /\ faults' = faults
      /\ last' = Request("Set", entry, FALSE, <<>>, "crash")
      /\ Down
      /\ UNCHANGED <<boot, clientVars>>

Next ==
  \/ Startup
  \/ Exit
  \/ \E e \in Entries : Set(e)
  \/ \E id \in Ids, d \in BOOLEAN : Get(id, d)
  \/ \E e \in Entries : WriteRequest(e)

Spec == Init /\ [][Next]_vars

NextCrash ==
  \/ Next
  \/ \E e \in Entries : CrashInPersist(e)

SpecCrash == Init /\ [][NextCrash]_vars

(***************************************************************************)
(* The process dies in Set between the append to the log and the rewrite   *)
(* of the snapshot: the record is in the log, and the snapshot file is the *)
(* one the Set before it wrote.                                            *)
(***************************************************************************)
CrashAfterAppend(entry) ==
  /\ phase = "up"
  /\ Len(written) + faults < MaxRecords
  /\ dbFile' = WriteString(dbFile, fPos, entry)
  /\ written' = Append(written, entry)
  /\ setPos' = fPos
  /\ last' = Request("Set", entry, FALSE, <<>>, "crash")
  /\ Down
  /\ UNCHANGED <<hashFile, boot, snaps, faults, clientVars>>

NextCrashAppend ==
  \/ Next
  \/ \E e \in Entries : CrashAfterAppend(e)

SpecCrashAppend == Init /\ [][NextCrashAppend]_vars

(***************************************************************************)
(* Set when reading the log length or the append fails: Set returns the    *)
(* error at once.  A failed WriteString may have put the first n bytes of  *)
(* the line into the log (n = 0: none).  Get is left out of this           *)
(* specification: it writes to neither file and leaves the index alone,    *)
(* and no step of Set depends on the offset it leaves the handle at.       *)
(***************************************************************************)
SetStatFails(entry) ==
  /\ phase = "up"
  /\ Len(written) + faults < MaxRecords
  /\ faults' = faults + 1
  /\ hashIndex' = AbortedIndex(hashIndex, dbFile, entry)
  /\ setPos' = fPos
  /\ last' = Request("Set", entry, FALSE, <<>>, "Stat")
  /\ UNCHANGED <<dbFile, hashFile, phase, fPos, hashPos, boot, written, snaps,
                 clientVars>>

SetWriteFails(entry) ==
  /\ phase = "up"
  /\ Len(written) + faults < MaxRecords
  /\ faults' = faults + 1
  /\ \E n \in 0..Len(entry) :
        dbFile' = dbFile \o Take(entry \o <<NL>>, n)
  /\ fPos' = Len(dbFile')
  /\ hashIndex' = AbortedIndex(hashIndex, dbFile, entry)
  /\ setPos' = fPos
  /\ last' = Request("Set", entry, FALSE, <<>>, "WriteString")
  /\ UNCHANGED <<hashFile, phase, hashPos, boot, written, snaps, clientVars>>

NextAppendFail ==
  \/ Startup
  \/ Exit
  \/ \E e \in Entries : Set(e)
  \/ \E e \in Entries : WriteRequest(e)
  \/ \E e \in Entries : SetStatFails(e)
  \/ \E e \in Entries : SetWriteFails(e)

SpecAppendFail == Init /\ [][NextAppendFail]_vars

(***************************************************************************)
(* Set when the rewrite of the snapshot fails after the append: the Seek   *)
(* to the start of the snapshot file fails, or the write that Encode       *)
(* issues fails after n bytes of the new snapshot (n = 0: none).  The      *)
(* record is in the log and the in-memory index has its offset; Set        *)
(* returns the error.                                                      *)
(***************************************************************************)
SetSeekFails(entry) ==
  /\ phase = "up"
  /\ faults < MaxFaults
  /\ Len(written) + faults < MaxRecords
  /\ faults' = faults + 1
  /\ dbFile' = WriteString(dbFile, fPos, entry)
  /\ fPos' = Len(dbFile')
  /\ written' = Append(written, entry)
  /\ hashIndex' = SetIndex(hashIndex, dbFile, entry)
  /\ setPos' = fPos
  /\ last' = Request("Set", entry, FALSE, <<>>, "Seek")
  /\ UNCHANGED <<hashFile, phase, hashPos, boot, snaps, clientVars>>

SetEncodeFails(entry) ==
  LET enc == Encode(SetIndex(hashIndex, dbFile, entry))
  IN  /\ phase = "up"
      /\ faults < MaxFaults
      /\ Len(written) + faults < MaxRecords
      /\ faults' = faults + 1
      /\ dbFile' = WriteString(dbFile, fPos, entry)
      /\ fPos' = Len(dbFile')
      /\ written' = Append(written, entry)
      /\ hashIndex' = SetIndex(hashIndex, dbFile, entry)
      /\ \E n \in 0..(Len(enc) - 1) :
            /\ hashFile' = WriteAt(hashFile, 0, Take(enc, n))
            /\ hashPos' = n
      /\ snaps' = snaps \cup {LoadIndex(WriteAt(hashFile, 0, enc))}
      /\ setPos' = fPos
      /\ last' = Request("Set", entry, FALSE, <<>>, "Encode")
      /\ UNCHANGED <<phase, boot, clientVars>>

NextPersistFail ==
  \/ Next
  \/ \E e \in Entries : SetSeekFails(e)
  \/ \E e \in Entries : SetEncodeFails(e)

SpecPersistFail == Init /\ [][NextPersistFail]_vars

(***************************************************************************)
(* The snapshot file is lost or discarded while no process runs: the next  *)
(* startup finds no file, creates an empty one (O_CREATE), and leaves the  *)
(* index empty.                                                            *)
(***************************************************************************)
LoseSnapshot ==
  /\ phase = "down"
  /\ Len(hashFile) > 0
  /\ hashFile' = <<>>
  /\ snaps' = {EmptyIndex}
  /\ UNCHANGED <<dbFile, phase, hashIndex, fPos, hashPos, boot, last, written,
                 setPos, faults, clientVars>>

NextLost ==
  \/ Next
  \/ LoseSnapshot

SpecLost == Init /\ [][NextLost]_vars

(***************************************************************************)
(* The store shared by concurrent clients: each client runs Set one        *)
(* statement at a time.  The DB struct embeds a sync.Mutex, and Set never  *)
(* locks it, so nothing orders the statements of two clients.              *)
(***************************************************************************)
InitConc ==
  /\ dbFile = <<>>
  /\ hashFile = <<>>
  /\ phase = "up"
  /\ hashIndex = EmptyIndex
  /\ fPos = 0
  /\ hashPos = 0
  /\ boot = "ok"
  /\ last = Request("none", <<>>, FALSE, <<>>, "")
  /\ written = <<>>
  /\ snaps = {EmptyIndex}
  /\ setPos = 0
  /\ faults = 0
  /\ pc = [c \in Clients |-> "idle"]
  /\ ent = [c \in Clients |-> <<>>]
  /\ sz = [c \in Clients |-> 0]
  /\ buf = [c \in Clients |-> <<>>]
  /\ calls = 0
  /\ rid = [c \in Clients |-> <<>>]
  /\ roff = [c \in Clients |-> -1]
  /\ rres = [c \in Clients |-> <<>>]
  /\ reads = 0

storeVars == <<dbFile, hashFile, hashIndex, fPos, hashPos, written>>

\* The client calls Set(db, entry).
Call(c, entry) ==
  /\ pc[c] = "idle"
  /\ calls < MaxCalls
  /\ calls' = calls + 1
  /\ pc' = [pc EXCEPT ![c] = "stat"]
  /\ ent' = [ent EXCEPT ![c] = entry]
  /\ UNCHANGED <<storeVars, sz, buf, phase, boot, last, hist,
                 readVars>>

\* info, err := db.DB.Stat()
StepStat(c) ==
  /\ pc[c] = "stat"
  /\ sz' = [sz EXCEPT ![c] = StatSize(dbFile)]
  /\ pc' = [pc EXCEPT ![c] = "write"]
  /\ UNCHANGED <<storeVars, ent, buf, calls, phase, boot, last, hist,
                 readVars>>

\* db.DB.WriteString(entry + "\n")
StepWrite(c) ==
  /\ pc[c] = "write"
  /\ dbFile' = WriteString(dbFile, fPos, ent[c])
  /\ fPos' = Len(dbFile')
  /\ written' = Append(written, ent[c])
  /\ pc' = [pc EXCEPT ![c] = "put"]
  /\ UNCHANGED <<hashFile, hashIndex, hashPos, ent, sz, buf, calls, phase,
                 boot, last, hist,
                 readVars>>

\* db.Hash[id] = info.Size()
StepPut(c) ==
  /\ pc[c] = "put"
  /\ hashIndex' = Put(hashIndex, SplitFirst(ent[c]), sz[c])
  /\ pc' = [pc EXCEPT ![c] = "seek"]
  /\ UNCHANGED <<dbFile, hashFile, fPos, hashPos, written, ent, sz, buf,
                 calls, phase, boot, last, hist,
                 readVars>>

\* db.HashStorage.Seek(0, io.SeekStart)
StepSeek(c) ==
  /\ pc[c] = "seek"
  /\ hashPos' = 0
  /\ pc' = [pc EXCEPT ![c] = "marshal"]
  /\ UNCHANGED <<dbFile, hashFile, hashIndex, fPos, written, ent, sz, buf,
                 calls, phase, boot, last, hist,
                 readVars>>

\* g.Encode(db.Hash), first half: the index is marshalled into a buffer.
StepMarshal(c) ==
  /\ pc[c] = "marshal"
  /\ buf' = [buf EXCEPT ![c] = Encode(hashIndex)]
  /\ pc' = [pc EXCEPT ![c] = "flush"]
  /\ UNCHANGED <<storeVars, ent, sz, calls, phase, boot, last, hist,
                 readVars>>

\* g.Encode(db.Hash), second half: the buffer is written at the handle's
\* offset; Set returns nil.
StepFlush(c) ==
  /\ pc[c] = "flush"
  /\ hashFile' = WriteAt(hashFile, hashPos, buf[c])
  /\ hashPos' = hashPos + Len(buf[c])
  /\ pc' = [pc EXCEPT ![c] = "idle"]
  /\ last' = Request("Set", ent[c], FALSE, <<>>, "")
  /\ UNCHANGED <<dbFile, hashIndex, fPos, written, ent, sz, buf, calls,
                 phase, boot, hist,
                 readVars>>

NextConc ==
  \/ \E c \in Clients, e \in Entries : Call(c, e)
  \/ \E c \in Clients : StepStat(c)
  \/ \E c \in Clients : StepWrite(c)
  \/ \E c \in Clients : StepPut(c)
  \/ \E c \in Clients : StepSeek(c)
  \/ \E c \in Clients : StepMarshal(c)
  \/ \E c \in Clients : StepFlush(c)

SpecConc == InitConc /\ [][NextConc]_vars

(***************************************************************************)
(* Get on the store shared by concurrent clients (index enabled), one step *)
(* per access: the lookup in db.Hash, the Seek, and the read by the        *)
(* scanner.  Every client reads through the one handle db.DB, whose offset *)
(* the Seek of any Get and the append of any Set move.  The reads of one   *)
(* scan are taken as one step.  In this specification the Set calls do not *)
(* overlap each other, so that the index is the one sequential Sets build. *)
(***************************************************************************)
ReadIds == { SplitFirst(e) : e \in Entries }

SetPcs == {"stat", "write", "put", "seek", "marshal", "flush"}

GetPcs == {"gseek", "gscan", "gfull"}

\* The client calls Set(db, entry) while no other client is inside Set.
CallAlone(c, entry) ==
  /\ \A o \in Clients \ {c} : pc[o] \notin SetPcs
  /\ Call(c, entry)

\* The client calls Get(db, id): offset, ok := db.Hash[id].
CallGet(c, id) ==
  /\ pc[c] = "idle"
  /\ reads < MaxReads
  /\ reads' = reads + 1
  /\ rid' = [rid EXCEPT ![c] = id]
  /\ roff' = [roff EXCEPT ![c] = IF id \in DOMAIN hashIndex THEN hashIndex[id] ELSE -1]
  /\ pc' = [pc EXCEPT ![c] = IF id \in DOMAIN hashIndex THEN "gseek" ELSE "gfull"]
  /\ UNCHANGED <<storeVars, ent, sz, buf, calls, rres, phase, boot, last, hist>>

\* db.DB.Seek(offset, io.SeekStart)
StepGetSeek(c) ==
  /\ pc[c] = "gseek"
  /\ fPos' = roff[c]
  /\ pc' = [pc EXCEPT ![c] = "gscan"]
  /\ UNCHANGED <<dbFile, hashFile, hashIndex, hashPos, written, ent, sz, buf,
                 calls, readVars, phase, boot, last, hist>>

\* r.Scan(); entry = r.Text(): the scanner reads at the handle's offset.
StepGetScan(c) ==
  /\ pc[c] = "gscan"
  /\ rres' = [rres EXCEPT ![c] = ScanFirstText(Drop(dbFile, fPos))]
  /\ fPos' = fPos + ScanFirstRead(Drop(dbFile, fPos), ScanBufSize)
  /\ pc' = [pc EXCEPT ![c] = "idle"]
  /\ last' = Request("Get", rid[c], FALSE, rres'[c], "")
  /\ UNCHANGED <<dbFile, hashFile, hashIndex, hashPos, written, ent, sz, buf,
                 calls, rid, roff, reads, phase, boot, hist>>

\* scanFullDB(r, id): the scanner reads from the handle's offset to the end.
StepGetFull(c) ==
  /\ pc[c] = "gfull"
  /\ rres' = [rres EXCEPT ![c] = scanFullDB(Drop(dbFile, fPos), rid[c])]
  /\ fPos' = Len(dbFile)
  /\ pc' = [pc EXCEPT ![c] = "idle"]
  /\ last' = Request("Get", rid[c], FALSE, rres'[c], "")
  /\ UNCHANGED <<dbFile, hashFile, hashIndex, hashPos, written, ent, sz, buf,
                 calls, rid, roff, reads, phase, boot, hist>>

NextRead ==
  \/ \E c \in Clients, e \in Entries : CallAlone(c, e)
  \/ \E c \in Clients : StepStat(c)
  \/ \E c \in Clients : StepWrite(c)
  \/ \E c \in Clients : StepPut(c)
  \/ \E c \in Clients : StepSeek(c)
  \/ \E c \in Clients : StepMarshal(c)
  \/ \E c \in Clients : StepFlush(c)
  \/ \E c \in Clients, id \in ReadIds : CallGet(c, id)
  \/ \E c \in Clients : StepGetSeek(c)
  \/ \E c \in Clients : StepGetScan(c)
  \/ \E c \in Clients : StepGetFull(c)

SpecRead == InitConc /\ [][NextRead]_vars

(***************************************************************************)
(* Properties.                                                             *)
(***************************************************************************)
\* The positions in written of the records whose key is id.
RecordsOf(id) == { i \in 1..Len(written) : SplitFirst(written[i]) = id }

\* The record of id written last.
LatestRecord(id) ==
  written[CHOOSE i \in RecordsOf(id) : \A j \in RecordsOf(id) : j <= i]

\* C1. Write-then-read: a successful Set of the record K,V (K without
\* separator) immediately followed by Get(K) on the same store returns that
\* record, so its value V, with the index enabled and with it disabled.
C1_WriteThenRead ==
  [][\A id \in Ids, d \in BOOLEAN :
       (/\ Get(id, d)
        /\ last.op = "Set" /\ last.err = ""
        /\ Contains(last.arg, Comma)
        /\ SplitFirst(last.arg) = id)
       => last'.res = last.arg]_vars

\* C2. Last-write-wins: once a key has been Set twice or more, with Sets of
\* other keys anywhere around them, Get of that key in either mode returns
\* the record of the key that was written last.
C2_LastWriteWins ==
  (/\ last.op = "Get"
   /\ \E i, j \in RecordsOf(last.arg) : i < j /\ written[i] # written[j])
  => last.res = LatestRecord(last.arg)

\* C3. Index/no-index parity: in every state of an open store, reached by any
\* sequence of Sets and Gets, a Get of any key returns the same entry with
\* the index enabled as with the index disabled.
C3_IndexParity ==
  phase = "up" =>
    \A id \in Ids :
      GetEntry(hashIndex, FALSE, dbFile, fPos, id)
      = GetEntry(hashIndex, TRUE, dbFile, fPos, id)

\* The offset in the log of the i-th record written.
RECURSIVE OffsetOf(_)
OffsetOf(i) == IF i = 1 THEN 0 ELSE OffsetOf(i - 1) + Len(written[i - 1]) + 1

\* C4. Mutual exclusion of the write path: when the concurrent Set calls
\* have all returned, each key's index entry is an offset at which a record
\* of that key starts in the log.
C4_WritePathExclusive ==
  (\A c \in Clients : pc[c] = "idle")
  => \A k \in DOMAIN hashIndex :
       \E i \in RecordsOf(k) : hashIndex[k] = OffsetOf(i)

C6_NotFound ==
  last.op = "Get" => (last.res = <<>> <=> RecordsOf(last.arg) = {})

\* C7. Index invariant: a Set of an entry with key K records index[K] = O,
\* the log length right before its append, which is where the new record
\* begins; and while the store is open every other step (a Get, a Set of
\* another key) leaves index[K] as it is.
C7_IndexInvariant ==
  [][/\ \A e \in Entries :
          Set(e) => /\ SplitFirst(e) \in DOMAIN hashIndex'
                    /\ hashIndex'[SplitFirst(e)] = Len(dbFile)
                    /\ Drop(dbFile', hashIndex'[SplitFirst(e)]) = e \o <<NL>>
     /\ (phase = "up" /\ phase' = "up") =>
          \A k \in DOMAIN hashIndex :
            (\A e \in Entries : ~(Set(e) /\ SplitFirst(e) = k))
            => (k \in DOMAIN hashIndex' /\ hashIndex'[k] = hashIndex[k])]_vars

\* Key "a" was set at offset 0, and the index still says so after a Set of
\* another key and a Get.
C7_Witness ==
  /\ phase = "up"
  /\ Len(written) >= 2
  /\ last.op = "Get"
  /\ <<97>> \in DOMAIN hashIndex
  /\ hashIndex[<<97>>] = 0
  /\ Cardinality(DOMAIN hashIndex) >= 2

\* C8. Snapshot round-trip: after a successful Set, loading the snapshot file
\* it wrote yields exactly the in-memory index; and loading an empty
\* snapshot yields the empty index.
C8_SnapshotRoundTrip ==
  /\ (phase = "up" /\ last.op = "Set" /\ last.err = "")
       => (~LoadFails(hashFile) /\ LoadIndex(hashFile) = hashIndex)
  /\ hashFile = <<>> => (~LoadFails(hashFile) /\ LoadIndex(hashFile) = EmptyIndex)

\* C9. Crash atomicity of persist: whatever a crash inside the rewrite of the
\* snapshot leaves in the file, a process that starts on it holds the index
\* of a complete snapshot, the earlier one or the new one (or it does not
\* start: the file is found invalid).
C9_CrashAtomicity == phase = "up" => LoadIndex(hashFile) \in snaps

\* The whole snapshot file is one object of keys and offsets, with nothing
\* but white space after it.
WellFormedSnapshot(file) ==
  LET r == Decode(file, EmptyIndex)
  IN  r.ok /\ \A j \in r.next..Len(file) : IsSpace(file[j])

\* C10. Corrupt snapshot is fatal: when the snapshot file is not empty and is
\* not a well-formed key-to-offset mapping, startup ends with
\* CorruptSnapshot: no process comes up, and no Get or Set runs.
C10_CorruptSnapshotFatal ==
  [][((Startup \/ \E e \in Entries : WriteRequest(e))
      /\ Len(hashFile) > 0 /\ ~WellFormedSnapshot(hashFile))
     => /\ boot' = "CorruptSnapshot"
        /\ phase' = "down"
        /\ last' = last
        /\ dbFile' = dbFile
        /\ hashFile' = hashFile]_vars

\* C11. Full scan is restartable: every Get that runs the full scan (index
\* disabled, or no index entry for the id) returns what a scan of the whole
\* log from byte offset 0 returns, whatever Sets and Gets ran before it on
\* the same log handle.
C11_FullScanRestartable ==
  [][\A id \in Ids, d \in BOOLEAN :
       (Get(id, d) /\ (d \/ id \notin DOMAIN hashIndex))
       => last'.res = scanFullDB(dbFile, id)]_vars

\* C12. Concurrent reads need no lock: a Get that ran while other Gets or a
\* Set ran on the same store returns what it returns when run alone: when
\* the index held the id at offset O, the record that starts at O; when the
\* index did not hold it, a record of that id or the empty entry.  It never
\* returns what lies at the offset another operation moved the handle to.
C12_ConcurrentReads ==
  \A c \in Clients :
    (pc[c] \notin GetPcs /\ rid[c] # <<>>)
    => IF roff[c] >= 0
       THEN rres[c] = ScanFirstText(Drop(dbFile, roff[c]))
       ELSE \/ rres[c] = <<>>
            \/ \E i \in RecordsOf(rid[c]) : rres[c] = written[i]

\* C13. Append-only log: every step leaves the bytes already in the log as
\* they are; a Get, a startup and an exit leave the log as it is; and a
\* successful Set of an entry makes the log the old log followed by the
\* entry and a newline, len(entry)+1 bytes more, wherever an earlier Get
\* left the handle.
C13_AppendOnly ==
  [][/\ Len(dbFile') >= Len(dbFile)
     /\ Take(dbFile', Len(dbFile)) = dbFile
     /\ (Startup \/ Exit \/ \E id \in Ids, d \in BOOLEAN : Get(id, d))
          => dbFile' = dbFile
     /\ \A e \in Entries :
          (Set(e) \/ (WriteRequest(e) /\ ~LoadFails(hashFile) /\ ~Refused(e)))
          => /\ Len(dbFile') = Len(dbFile) + Len(e) + 1
             /\ Drop(dbFile', Len(dbFile)) = e \o <<NL>>]_vars

\* A Set has appended its record to a log whose handle an indexed Get had
\* left inside the log, neither at its start nor at its end.
C13_Witness ==
  /\ phase = "up"
  /\ last.op = "Set"
  /\ last.err = ""
  /\ setPos > 0
  /\ setPos < Len(dbFile) - (Len(last.arg) + 1)
  /\ Drop(dbFile, Len(dbFile) - (Len(last.arg) + 1)) = last.arg \o <<NL>>

\* C14. Index is a pure cache: a Get of K with the index enabled, on a store
\* whose index holds no entry for K (the snapshot was lost, or never held
\* K), returns what a Get with a complete, up-to-date index returns: the
\* record of K written last, or the empty entry when the log has none.
C14_IndexPureCache ==
  [][\A id \in Ids :
       (Get(id, FALSE) /\ id \notin DOMAIN hashIndex)
       => last'.res = (IF RecordsOf(id) # {} THEN LatestRecord(id) ELSE <<>>)]_vars

\* C15. Abort on append failure: a Set in which reading the log length or
\* the append fails returns the error and leaves the in-memory index and the
\* snapshot file as they were; and in every state of an open store each
\* offset in the index is smaller than the length of the log.
C15_AbortOnAppendFailure ==
  [][/\ \A e \in Entries :
          (SetStatFails(e) \/ SetWriteFails(e))
          => /\ last'.err # ""
             /\ hashIndex' = hashIndex
             /\ hashFile' = hashFile
             /\ LoadIndex(hashFile') = LoadIndex(hashFile)
     /\ \A k \in DOMAIN hashIndex' : hashIndex'[k] < Len(dbFile')]_vars

\* An append failed part-way on a store that holds indexed records: the log
\* ends in the bytes of an unfinished line.
C15_Witness ==
  /\ phase = "up"
  /\ last.err = "WriteString"
  /\ DOMAIN hashIndex # {}
  /\ Len(dbFile) > 0
  /\ dbFile[Len(dbFile)] # NL

\* C16. Persist failure is surfaced, append is kept: a Set whose rewrite of
\* the snapshot fails after the append (in the Seek, or in the write of the
\* encoding) returns an error, its record is in the log, and a later Get of
\* its key with the index disabled, a full scan, returns that record.
C16_PersistFailureSurfaced ==
  [][/\ \A e \in Entries :
          (SetSeekFails(e) \/ SetEncodeFails(e))
          => /\ last'.err # ""
             /\ dbFile' = dbFile \o e \o <<NL>>
     /\ \A id \in Ids :
          (/\ Get(id, TRUE)
           /\ last.op = "Set"
           /\ last.err \in {"Seek", "Encode"}
           /\ SplitFirst(last.arg) = id)
          => last'.res = last.arg]_vars

\* The bytes of the file from offset O up to the next newline, or to the end
\* of the file when no newline follows.
RecordAt(file, O) ==
  IF Contains(Drop(file, O), NL)
  THEN SubSeq(file, O + 1, O + IndexByte(Drop(file, O), NL) - 1)
  ELSE Drop(file, O)

C18_IndexLogConsistency ==
  phase = "up" =>
    \A k \in DOMAIN hashIndex :
      RecordsOf(k) # {}
      => hashIndex[k] = OffsetOf(CHOOSE i \in RecordsOf(k) :
                                   \A j \in RecordsOf(k) : j <= i)

\* C19. Snapshot never shrinks: the snapshot that a successful Set writes,
\* in a process that has run since startup or in a process of its own, is at
\* least as long as the snapshot file it overwrites, so that the file it
\* leaves is exactly the new snapshot, with no stale bytes behind it.
C19_SnapshotNeverShrinks ==
  [][\A e \in Entries :
       /\ Set(e)
            => /\ Len(Encode(SetIndex(hashIndex, dbFile, e))) >= Len(hashFile)
               /\ hashFile' = Encode(SetIndex(hashIndex, dbFile, e))
       /\ (WriteRequest(e) /\ ~LoadFails(hashFile) /\ ~Refused(e))
            => /\ Len(Encode(SetIndex(LoadIndex(hashFile), dbFile, e)))
                  >= Len(hashFile)
               /\ hashFile' = Encode(SetIndex(LoadIndex(hashFile), dbFile, e))]_vars

====
